---- MODULE Spec2Model ----
(***************************************************************************)
(* USB CDC-ACM <-> BLE UART bridge (main/main.c).                          *)
(*                                                                         *)
(* Units of execution:                                                     *)
(*   app_main      the device lifecycle manager (open / configure / wait)  *)
(*   echoTask      the wireless -> wired pump                              *)
(*   CDC driver    runs the callbacks handle_rx and handle_event           *)
(*   environment   the wired device (plug, unplug, inbound data) and the   *)
(*                 wireless peer (inbound chunks, outcome of sends)        *)
(***************************************************************************)
EXTENDS Integers, Sequences, FiniteSets, TLC

(* ------------------------------ bounds -------------------------------- *)
\* successful opens explored (the loop of app_main is unbounded)
MaxSessions == 2
\* chunks the wireless inbound ring buffer holds
MaxQueue == 2
\* chunks the wireless peer leaves waiting while the lifecycle is explored
MaxPending == 1
\* Kconfig value CONFIG_NORDIC_UART_MAX_LINE_LENGTH, scaled down
CONFIG_NORDIC_UART_MAX_LINE_LENGTH == 3

(* ----------------------------- constants ------------------------------ *)
NULL == 0
NUL == 0
CR == 13
USB_TX_TIMEOUT_MS == 1000

\* sizeof(mbuf)
Capacity == CONFIG_NORDIC_UART_MAX_LINE_LENGTH + 1
\* longest chunk a transport delivers here: two bytes more than mbuf holds
MaxChunkLen == Capacity + 1
\* byte values told apart: the terminator, LF (10), CR and the letter 'a' (97)
Bytes == {NUL, 10, CR, 97}
Chunks == UNION {[1..n -> Bytes] : n \in 0..MaxChunkLen}

ESP_OK == "ESP_OK"
ESP_FAIL == "ESP_FAIL"
Results == {ESP_OK, ESP_FAIL}

(* ------------------------- memory and strings ------------------------- *)
\* mbuf[a - b] with a, b of type size_t on the 32-bit target: for a < b the
\* index wraps to 2^32 - (b - a) and the address mbuf + index wraps again, so
\* the cell accessed lies b - a bytes BEFORE mbuf. The offset of the accessed
\* cell from mbuf, negative when the index wrapped:
IndexOffset(a, b) == a - b

\* cells of the model's memory image of a static mbuf: the buffer itself
\* (0..Capacity-1) followed by the storage that lies behind it
Cells == 0..(MaxChunkLen)
InBuffer(i) == i \in 0..(Capacity - 1)

ZeroMem == [i \in Cells |-> NUL]

\* byte strncpy stores at dst[i], i < n: src[i] up to the first NUL of src,
\* NUL padding after it (src is 1-based here, dst 0-based)
StrncpyByte(src, i) ==
    IF \E j \in 1..i : src[j] = NUL THEN NUL ELSE src[i + 1]

\* strncpy(mbuf, data, n); mbuf[n] = '\0';
CopyAndTerminate(mem, data, n) ==
    [i \in Cells |-> IF i < n THEN StrncpyByte(data, i)
                     ELSE IF i = n THEN NUL
                     ELSE mem[i]]

\* the cells written by strncpy(mbuf, data, n); mbuf[n] = '\0';
CopyWrites(n) == 0..n

\* strlen(mbuf): index of the first NUL (the image always ends in reach of one
\* terminator, written at index n <= MaxChunkLen)
Strlen(mem) ==
    IF \E i \in Cells : mem[i] = NUL
    THEN CHOOSE i \in Cells : mem[i] = NUL /\ \A j \in 0..(i - 1) : mem[j] # NUL
    ELSE MaxChunkLen + 1

\* the C string that starts at mbuf
CStr(mem) == [k \in 1..Strlen(mem) |-> mem[k - 1]]

(* ------------------------------ state --------------------------------- *)
VARIABLES
    \* --- process
    aborted,        \* abort() was called (a failed ESP_ERROR_CHECK)
    failed,         \* the call whose error ESP_ERROR_CHECK was given, or "none"
    \* --- globals of main.c
    cdc_dev,        \* the shared device handle: NULL or a session number
    sem,            \* device_disconnected_sem, a binary semaphore: 0 or 1
    \* --- app_main
    mpc,            \* position in the while (true) loop
    line_coding,    \* the local cdc_acm_line_coding_t
    steps,          \* calls of app_main that succeeded, from its last successful open on
    setArgs,        \* line coding passed to the last cdc_acm_host_line_coding_set
    ctrlArgs,       \* <<dtr, rts>> of the last cdc_acm_host_set_control_line_state
    nTake,          \* completed xSemaphoreTake calls
    \* --- CDC-ACM driver and wired device
    nsess,          \* sessions opened so far; the newest handle
    openHdls,       \* handles the driver holds open
    devPresent,     \* the wired device is plugged in
    devCoding,      \* line coding the device runs with
    evPending,      \* handles with an undelivered DEVICE_DISCONNECTED event
    hpc,            \* position of handle_event's disconnect case
    hHdl,           \* event->data.cdc_hdl of the event being handled
    giveCnt,        \* per session: xSemaphoreGive calls of its disconnect event
    \* --- handle_rx
    usbIn,          \* chunk received from the device, not yet delivered (<<chunk>>) or <<>>
    rx_mbuf,        \* the static mbuf of handle_rx and the storage behind it
    rx,             \* what the last handle_rx call did
    rxInCfg,        \* handle_rx forwarded a chunk while this session was configured
    \* --- echoTask and the wireless stack
    rbuf,           \* nordic_uart_rx_buf_handle is not NULL
    queue,          \* the wireless inbound ring buffer
    epc,            \* position in echoTask's loop
    item,           \* the dequeued, unreturned item (a one-element sequence) or <<>>
    e_mbuf,         \* the static mbuf of echoTask and the storage behind it
    tx,             \* the last cdc_acm_host_data_tx_blocking call
    ewr             \* cells echoTask's last copy wrote

mgrVars == <<mpc, line_coding, steps, setArgs, ctrlArgs, nTake>>
drvVars == <<nsess, openHdls, devPresent, devCoding, evPending>>
evVars == <<hpc, hHdl, giveCnt>>
rxVars == <<usbIn, rx_mbuf, rx, rxInCfg>>
echoVars == <<rbuf, queue, epc, item, e_mbuf, tx, ewr>>
vars == <<aborted, failed, cdc_dev, sem, mgrVars, drvVars, evVars, rxVars, echoVars>>

Sessions == 1..MaxSessions

\* cdc_acm_line_coding_t
Coding(rate, stop, parity, data) ==
    [dwDTERate |-> rate, bCharFormat |-> stop, bParityType |-> parity, bDataBits |-> data]
\* what the device runs with when it is plugged in
DevDefault == Coding(9600, 0, 0, 8)

\* positions of app_main between a successful open and the wait
CfgPcs == {"delay", "get1", "set", "get2", "ctrl"}

\* no handle_rx call yet / no cdc_acm_host_data_tx_blocking call yet
NoRx == [data |-> <<>>, sent |-> <<>>, err |-> ESP_OK, warned |-> FALSE,
         logged |-> <<>>, ret |-> FALSE, reads |-> {}, writes |-> {}]
NoTx == [called |-> FALSE, hdl |-> NULL, valid |-> FALSE, data |-> <<>>,
         timeout |-> 0, err |-> ESP_OK, warned |-> FALSE]

(* lines 156-184: the semaphore is created empty, the drivers are installed,  *)
(* nordic_uart_start has created the ring buffer (or failed to: its result is *)
(* not checked), both tasks are created and app_main enters its loop.         *)
Init ==
    /\ aborted = FALSE
    /\ failed = "none"
    /\ cdc_dev = NULL
    /\ sem = 0
    /\ mpc = "open"
    /\ line_coding = Coding(0, 0, 0, 0)
    /\ steps = <<>>
    /\ setArgs = Coding(0, 0, 0, 0)
    /\ ctrlArgs = <<FALSE, FALSE>>
    /\ nTake = 0
    /\ nsess = 0
    /\ openHdls = {}
    /\ devPresent \in BOOLEAN
    /\ devCoding = DevDefault
    /\ evPending = {}
    /\ hpc = "idle"
    /\ hHdl = NULL
    /\ giveCnt = [s \in Sessions |-> 0]
    /\ usbIn = <<>>
    /\ rx_mbuf = ZeroMem
    /\ rx = NoRx
    /\ rxInCfg = FALSE
    /\ rbuf \in BOOLEAN
    /\ queue = <<>>
    /\ epc = "recv"
    /\ item = <<>>
    /\ e_mbuf = ZeroMem
    /\ tx = NoTx
    /\ ewr = {}

(* --------------------------- CDC-ACM driver --------------------------- *)
\* what a driver call on handle h can return: a NULL handle is rejected, a
\* call on an open handle reaches the device or fails, and a call on a closed
\* (freed) handle is undefined: it may return either
CallResults(h) ==
    IF h = NULL THEN {ESP_FAIL}
    ELSE IF h \in openHdls THEN (IF devPresent THEN Results ELSE {ESP_FAIL})
    ELSE Results

\* abort(), as _esp_error_check_failed calls it
Abort == aborted' = TRUE

\* ESP_ERROR_CHECK(x) with x != ESP_OK, x the result of the call named site
FailAt(site) == Abort /\ failed' = site

(* ------------------------------ app_main ------------------------------ *)
\* line 190-195: cdc_acm_host_open; on failure log and continue
MgrOpen ==
    /\ ~aborted /\ mpc = "open"
    /\ \/ /\ devPresent /\ openHdls = {} /\ nsess < MaxSessions
          /\ nsess' = nsess + 1
          /\ openHdls' = {nsess + 1}
          /\ cdc_dev' = nsess + 1
          /\ steps' = <<"open">>
          /\ rxInCfg' = FALSE
          /\ mpc' = "delay"
       \/ /\ cdc_dev' \in {NULL, cdc_dev}
          /\ mpc' = "open"
          /\ UNCHANGED <<nsess, openHdls, steps, rxInCfg>>
    /\ UNCHANGED <<aborted, failed, sem, line_coding, setArgs, ctrlArgs, nTake,
                   devPresent, devCoding, evPending, evVars, usbIn, rx_mbuf, rx, echoVars>>

\* line 197: vTaskDelay(pdMS_TO_TICKS(100))
MgrDelay ==
    /\ ~aborted /\ mpc = "delay"
    /\ steps' = Append(steps, "delay")
    /\ mpc' = "get1"
    /\ UNCHANGED <<aborted, failed, cdc_dev, sem, line_coding, setArgs, ctrlArgs, nTake,
                   drvVars, evVars, rxVars, echoVars>>

\* (a get whose failure is logged and sends the loop back to the open)
LineCodingGet_Retry(from, to) ==
    /\ ~aborted /\ mpc = from
    /\ \E r \in CallResults(cdc_dev) :
          IF r = ESP_OK
          THEN /\ line_coding' = devCoding
               /\ steps' = Append(steps, "get")
               /\ mpc' = to
               /\ UNCHANGED <<aborted, failed>>
          ELSE /\ failed' = "get"
               /\ mpc' = "open"
               /\ UNCHANGED <<aborted, line_coding, steps>>
    /\ UNCHANGED <<cdc_dev, sem, setArgs, ctrlArgs, nTake,
                   drvVars, evVars, rxVars, echoVars>>

\* ESP_ERROR_CHECK(cdc_acm_host_line_coding_get(cdc_dev, &line_coding))
LineCodingGet(from, to) ==
    /\ ~aborted /\ mpc = from
    /\ \E r \in CallResults(cdc_dev) :
          IF r = ESP_OK
          THEN /\ line_coding' = devCoding
               /\ steps' = Append(steps, "get")
               /\ mpc' = to
               /\ UNCHANGED <<aborted, failed>>
          ELSE /\ FailAt("get")
               /\ UNCHANGED <<line_coding, steps, mpc>>
    /\ UNCHANGED <<cdc_dev, sem, setArgs, ctrlArgs, nTake,
                   drvVars, evVars, rxVars, echoVars>>

\* (a loop that goes from the first get straight to the second)
MgrGet1_SkipSet == LineCodingGet("get1", "get2")

\* line 207
MgrGet1 == LineCodingGet("get1", "set")

\* (the comment of line 203 still announces 9600 7N1)
TargetCoding_9600_7N1(lc) ==
    [lc EXCEPT !.dwDTERate = 9600, !.bDataBits = 7,
               !.bParityType = 0, !.bCharFormat = 0]

\* the four assignments of lines 211-214
TargetCoding(lc) ==
    [lc EXCEPT !.dwDTERate = 115200, !.bDataBits = 8,
               !.bParityType = 0, !.bCharFormat = 1]

\* lines 211-215: fill line_coding, ESP_ERROR_CHECK(cdc_acm_host_line_coding_set)
MgrSet ==
    /\ ~aborted /\ mpc = "set"
    /\ line_coding' = TargetCoding(line_coding)
    /\ setArgs' = line_coding'
    /\ \E r \in CallResults(cdc_dev) :
          IF r = ESP_OK
          THEN /\ devCoding' = IF cdc_dev \in openHdls THEN line_coding' ELSE devCoding
               /\ steps' = Append(steps, "set")
               /\ mpc' = "get2"
               /\ UNCHANGED <<aborted, failed>>
          ELSE /\ FailAt("set")
               /\ UNCHANGED <<devCoding, steps, mpc>>
    /\ UNCHANGED <<cdc_dev, sem, ctrlArgs, nTake,
                   nsess, openHdls, devPresent, evPending, evVars, rxVars, echoVars>>

\* lines 219-221: the second get, logged
MgrGet2 == LineCodingGet("get2", "ctrl")

\* lines 223-226: ESP_ERROR_CHECK(cdc_acm_host_set_control_line_state(cdc_dev,
\* true, false)), then log "Connected"
MgrCtrl ==
    /\ ~aborted /\ mpc = "ctrl"
    /\ ctrlArgs' = <<TRUE, FALSE>>
    /\ \E r \in CallResults(cdc_dev) :
          IF r = ESP_OK
          THEN /\ steps' = Append(steps, "ctrl")
               /\ mpc' = "take"
               /\ UNCHANGED <<aborted, failed>>
          ELSE /\ FailAt("ctrl")
               /\ UNCHANGED <<steps, mpc>>
    /\ UNCHANGED <<cdc_dev, sem, line_coding, setArgs, nTake,
                   drvVars, evVars, rxVars, echoVars>>

\* (a wait with a timeout, which returns without the signal as well)
MgrTake_Timeout ==
    /\ ~aborted /\ mpc = "take"
    /\ sem' = 0
    /\ nTake' = nTake + 1
    /\ mpc' = "open"
    /\ UNCHANGED <<aborted, failed, cdc_dev, line_coding, steps, setArgs, ctrlArgs,
                   drvVars, evVars, rxVars, echoVars>>

\* (a wait that leaves the signal pending)
MgrTake_NoDrain ==
    /\ ~aborted /\ mpc = "take"
    /\ sem = 1
    /\ nTake' = nTake + 1
    /\ mpc' = "open"
    /\ UNCHANGED <<aborted, failed, cdc_dev, sem, line_coding, steps, setArgs, ctrlArgs,
                   drvVars, evVars, rxVars, echoVars>>

\* line 227: xSemaphoreTake(device_disconnected_sem, portMAX_DELAY), then the
\* loop starts over
MgrTake ==
    /\ ~aborted /\ mpc = "take"
    /\ sem = 1
    /\ sem' = 0
    /\ nTake' = nTake + 1
    /\ mpc' = "open"
    /\ UNCHANGED <<aborted, failed, cdc_dev, line_coding, steps, setArgs, ctrlArgs,
                   drvVars, evVars, rxVars, echoVars>>

(* --------------------------- the wired device ------------------------- *)
\* the device is plugged in
Plug ==
    /\ ~aborted /\ ~devPresent
    /\ devPresent' = TRUE
    /\ devCoding' = DevDefault
    /\ UNCHANGED <<aborted, failed, cdc_dev, sem, mgrVars, nsess, openHdls, evPending,
                   evVars, rxVars, echoVars>>

\* the device is pulled: the driver queues DEVICE_DISCONNECTED for each open
\* handle
Unplug ==
    /\ ~aborted /\ devPresent
    /\ devPresent' = FALSE
    /\ evPending' = evPending \cup openHdls
    /\ UNCHANGED <<aborted, failed, cdc_dev, sem, mgrVars, nsess, openHdls, devCoding,
                   evVars, rxVars, echoVars>>

(* ---------------------------- handle_event ---------------------------- *)
\* (a disconnect case that signals without closing the handle)
EventDisconnect_NoClose ==
    /\ ~aborted /\ hpc = "idle"
    /\ \E h \in evPending :
          /\ evPending' = evPending \ {h}
          /\ hHdl' = h
          /\ hpc' = "give"
    /\ UNCHANGED <<aborted, failed, cdc_dev, sem, mgrVars, nsess, openHdls, devPresent,
                   devCoding, giveCnt, rxVars, echoVars>>

\* line 77-79: case CDC_ACM_HOST_DEVICE_DISCONNECTED: log,
\* ESP_ERROR_CHECK(cdc_acm_host_close(event->data.cdc_hdl)); closing drops the
\* data the driver has not delivered yet
EventDisconnectClose ==
    /\ ~aborted /\ hpc = "idle"
    /\ \E h \in evPending :
          /\ evPending' = evPending \ {h}
          /\ hHdl' = h
          /\ \E r \in Results :
                IF r = ESP_OK
                THEN /\ openHdls' = openHdls \ {h}
                     /\ usbIn' = <<>>
                     /\ hpc' = "give"
                     /\ UNCHANGED <<aborted, failed>>
                ELSE /\ FailAt("close")
                     /\ UNCHANGED <<openHdls, usbIn, hpc>>
    /\ UNCHANGED <<cdc_dev, sem, mgrVars, nsess, devPresent, devCoding,
                   giveCnt, rx_mbuf, rx, rxInCfg, echoVars>>

\* (a give that only wakes a manager already waiting, and is dropped otherwise)
EventDisconnectGive_IfWaiting ==
    /\ ~aborted /\ hpc = "give"
    /\ sem' = IF mpc = "take" THEN 1 ELSE sem
    /\ giveCnt' = [giveCnt EXCEPT ![hHdl] = @ + 1]
    /\ hpc' = "idle"
    /\ UNCHANGED <<aborted, failed, cdc_dev, mgrVars, drvVars, hHdl, rxVars, echoVars>>

\* line 80-81: xSemaphoreGive(device_disconnected_sem); break
EventDisconnectGive ==
    /\ ~aborted /\ hpc = "give"
    /\ sem' = 1
    /\ giveCnt' = [giveCnt EXCEPT ![hHdl] = @ + 1]
    /\ hpc' = "idle"
    /\ UNCHANGED <<aborted, failed, cdc_dev, mgrVars, drvVars, hHdl, rxVars, echoVars>>

\* lines 74-76, 82-89: every other event is logged and nothing else
\* (E: CDC_ACM_HOST_ERROR, I: SERIAL_STATE, W: NETWORK_CONNECTION / default)
EventOther ==
    /\ ~aborted /\ hpc = "idle"
    /\ openHdls # {}
    /\ UNCHANGED vars

(* ---------------------------- usb_lib_task ---------------------------- *)
\* lines 99-113, one iteration: usb_host_lib_handle_events returns with the
\* flags the library raised; on NO_CLIENTS
\* ESP_ERROR_CHECK(usb_host_device_free_all()), on ALL_FREE a log line
UsbLibTask ==
    /\ ~aborted
    /\ \E event_flags \in SUBSET {"NO_CLIENTS", "ALL_FREE"} :
          IF "NO_CLIENTS" \in event_flags
          THEN \E r \in Results :
                  IF r = ESP_OK THEN UNCHANGED <<aborted, failed>>
                                ELSE FailAt("free_all")
          ELSE UNCHANGED <<aborted, failed>>
    /\ UNCHANGED <<cdc_dev, sem, mgrVars, drvVars, evVars, rxVars, echoVars>>

(* ------------------------------ handle_rx ----------------------------- *)
\* chunks the lifecycle specification relays: a line that fills the buffer
\* exactly (text, CR, LF) and a chunk of sizeof(mbuf) bytes (every chunk is
\* framed under SpecFrame)
LineChunk == [k \in 1..(Capacity - 1) |->
                 IF k = Capacity - 2 THEN CR ELSE IF k = Capacity - 1 THEN 10 ELSE 97]
OverChunk == [k \in 1..Capacity |-> 97]
UsbChunks == {LineChunk}
BleChunks == {LineChunk, OverChunk}

\* the device sends a chunk on an open session
DevSend(chunk) ==
    /\ ~aborted /\ devPresent /\ openHdls # {}
    /\ usbIn = <<>>
    /\ usbIn' = <<chunk>>
    /\ UNCHANGED <<aborted, failed, cdc_dev, sem, mgrVars, drvVars, evVars,
                   rx_mbuf, rx, rxInCfg, echoVars>>

\* lines 54-57: if (mbuf[data_len - 2] == '\r') mbuf[data_len - 2] = '\0';
\* idx is the offset of cell data_len - 2, v the byte the read returns.
StripCR(mem, idx, v) ==
    IF v = CR /\ idx \in Cells THEN [mem EXCEPT ![idx] = NUL] ELSE mem

\* line 49 stands before the strip of lines 54-57: nordic_uart_send gets the
\* buffer as copied, not as stripped
SentImage_AfterStrip(copied, stripped) == stripped
SentImage(copied, stripped) == copied

\* lines 42-60, the whole callback. It runs on the CDC driver's task, like
\* handle_event, so never inside handle_event's disconnect case.
HandleRx ==
    /\ ~aborted /\ hpc = "idle" /\ openHdls # {}
    /\ usbIn # <<>>
    /\ LET data == usbIn[1]
           n == Len(data)
           m1 == CopyAndTerminate(rx_mbuf, data, n)
           idx == IndexOffset(n, 2)
       IN \E r \in Results :
          \* a read outside the image returns whatever lies there
          \E v \in (IF idx \in Cells THEN {m1[idx]} ELSE Bytes) :
             /\ rx_mbuf' = StripCR(m1, idx, v)
             /\ rx' = [data |-> data,
                       sent |-> CStr(SentImage(m1, rx_mbuf')),
                       err |-> r,
                       warned |-> (r # ESP_OK),
                       logged |-> CStr(rx_mbuf'),
                       ret |-> TRUE,
                       reads |-> {idx},
                       writes |-> CopyWrites(n) \cup (IF v = CR THEN {idx} ELSE {})]
    /\ usbIn' = <<>>
    /\ rxInCfg' = (rxInCfg \/ mpc \in CfgPcs)
    /\ UNCHANGED <<aborted, failed, cdc_dev, sem, mgrVars, drvVars, evVars, echoVars>>

(* ------------------------------ echoTask ------------------------------ *)
\* the wireless stack queues a received chunk
BleEnqueue(chunk) ==
    /\ ~aborted /\ rbuf
    /\ Len(queue) < MaxQueue
    /\ queue' = Append(queue, chunk)
    /\ UNCHANGED <<aborted, failed, cdc_dev, sem, mgrVars, drvVars, evVars, rxVars,
                   rbuf, epc, item, e_mbuf, tx, ewr>>

\* (a receive that hands out the newest chunk of the ring buffer)
EchoRecv_Newest ==
    /\ ~aborted /\ epc = "recv" /\ rbuf
    /\ queue # <<>>
    /\ item' = <<queue[Len(queue)]>>
    /\ queue' = SubSeq(queue, 1, Len(queue) - 1)
    /\ e_mbuf' = CopyAndTerminate(e_mbuf, queue[Len(queue)], Len(queue[Len(queue)]))
    /\ ewr' = CopyWrites(Len(queue[Len(queue)]))
    /\ epc' = "tx"
    /\ UNCHANGED <<aborted, failed, cdc_dev, sem, mgrVars, drvVars, evVars, rxVars,
                   rbuf, tx>>

\* (a receive that strips the CR at item_size - 2 as handle_rx does)
EchoRecv_StripCR ==
    /\ ~aborted /\ epc = "recv" /\ rbuf
    /\ queue # <<>>
    /\ item' = <<Head(queue)>>
    /\ queue' = Tail(queue)
    /\ e_mbuf' = LET n == Len(Head(queue))
                     copied == CopyAndTerminate(e_mbuf, Head(queue), n)
                 IN  IF n >= 2 /\ copied[n - 2] = CR
                     THEN [copied EXCEPT ![n - 2] = NUL]
                     ELSE copied
    /\ ewr' = CopyWrites(Len(Head(queue)))
    /\ epc' = "tx"
    /\ UNCHANGED <<aborted, failed, cdc_dev, sem, mgrVars, drvVars, evVars, rxVars,
                   rbuf, tx>>

\* lines 123-131: xRingbufferReceive, strncpy, terminate, log
EchoRecv ==
    /\ ~aborted /\ epc = "recv" /\ rbuf
    /\ queue # <<>>
    /\ item' = <<Head(queue)>>
    /\ queue' = Tail(queue)
    /\ e_mbuf' = CopyAndTerminate(e_mbuf, Head(queue), Len(Head(queue)))
    /\ ewr' = CopyWrites(Len(Head(queue)))
    /\ epc' = "tx"
    /\ UNCHANGED <<aborted, failed, cdc_dev, sem, mgrVars, drvVars, evVars, rxVars,
                   rbuf, tx>>

\* line 132: cdc_acm_host_data_tx_blocking(cdc_dev, mbuf, strlen(mbuf),
\* USB_TX_TIMEOUT_MS) is entered
EchoTxCall ==
    /\ ~aborted /\ epc = "tx"
    /\ tx' = [called |-> TRUE, hdl |-> cdc_dev, valid |-> (cdc_dev \in openHdls),
              data |-> CStr(e_mbuf), timeout |-> USB_TX_TIMEOUT_MS,
              err |-> ESP_OK, warned |-> FALSE]
    /\ epc' = "txwait"
    /\ UNCHANGED <<aborted, failed, cdc_dev, sem, mgrVars, drvVars, evVars, rxVars,
                   rbuf, queue, item, e_mbuf, ewr>>

\* (the send wrapped in ESP_ERROR_CHECK, as in the commented-out line 200)
EchoTxReturn_ErrorCheck ==
    /\ ~aborted /\ epc = "txwait"
    /\ \E r \in CallResults(tx.hdl) :
          /\ tx' = [tx EXCEPT !.err = r]
          /\ IF r = ESP_OK THEN epc' = "ret" /\ UNCHANGED <<aborted, failed>>
                           ELSE FailAt("tx") /\ UNCHANGED epc
    /\ UNCHANGED <<cdc_dev, sem, mgrVars, drvVars, evVars, rxVars,
                   rbuf, queue, item, e_mbuf, ewr>>

\* lines 132-136: the blocking send returns; a failure is logged
EchoTxReturn ==
    /\ ~aborted /\ epc = "txwait"
    /\ \E r \in CallResults(tx.hdl) :
          tx' = [tx EXCEPT !.err = r, !.warned = (r # ESP_OK)]
    /\ epc' = "ret"
    /\ UNCHANGED <<aborted, failed, cdc_dev, sem, mgrVars, drvVars, evVars, rxVars,
                   rbuf, queue, item, e_mbuf, ewr>>

\* (the item returned only inside the success branch of the send)
EchoReturn_OnSuccessOnly ==
    /\ ~aborted /\ epc = "ret"
    /\ item' = IF tx.err = ESP_OK THEN <<>> ELSE item
    /\ epc' = "recv"
    /\ UNCHANGED <<aborted, failed, cdc_dev, sem, mgrVars, drvVars, evVars, rxVars,
                   rbuf, queue, e_mbuf, tx, ewr>>

\* line 137: vRingbufferReturnItem, then the next iteration
EchoReturn ==
    /\ ~aborted /\ epc = "ret"
    /\ item' = <<>>
    /\ epc' = "recv"
    /\ UNCHANGED <<aborted, failed, cdc_dev, sem, mgrVars, drvVars, evVars, rxVars,
                   rbuf, queue, e_mbuf, tx, ewr>>

\* lines 140-143: no ring buffer: vTaskDelay and look again
EchoDelay ==
    /\ ~aborted /\ epc = "recv" /\ ~rbuf
    /\ UNCHANGED vars

(* --------------------------- specifications --------------------------- *)
Next ==
    \/ MgrOpen \/ MgrDelay \/ MgrGet1 \/ MgrSet \/ MgrGet2 \/ MgrCtrl \/ MgrTake
    \/ Plug \/ Unplug
    \/ EventDisconnectClose \/ EventDisconnectGive \/ EventOther
    \/ UsbLibTask
    \/ \E c \in UsbChunks : DevSend(c)
    \/ HandleRx
    \/ \E c \in BleChunks : Len(queue) < MaxPending /\ BleEnqueue(c)
    \/ EchoRecv \/ EchoTxCall \/ EchoTxReturn \/ EchoReturn \/ EchoDelay

Spec == Init /\ [][Next]_vars

\* the calls that lead to "Connected", in the order of lines 190-223
ConnectedSteps == <<"open", "delay", "get", "set", "get", "ctrl">>

\* contents an mbuf has after an earlier chunk of Capacity - 1 letters
StaleMem == CopyAndTerminate(ZeroMem, [k \in 1..(Capacity - 1) |-> 97], Capacity - 1)

(* Framing of every chunk: the bridge is Connected on its first session (the  *)
(* state app_main reaches through lines 190-226 with every call succeeding),  *)
(* both buffers are fresh or hold an earlier line, and one chunk of any        *)
(* content up to MaxChunkLen bytes has arrived from the device or from the     *)
(* wireless peer.                                                             *)
InitFrame ==
    /\ aborted = FALSE
    /\ failed = "none"
    /\ cdc_dev = 1
    /\ sem = 0
    /\ mpc = "take"
    /\ line_coding = TargetCoding(DevDefault)
    /\ steps = ConnectedSteps
    /\ setArgs = TargetCoding(DevDefault)
    /\ ctrlArgs = <<TRUE, FALSE>>
    /\ nTake = 0
    /\ nsess = 1
    /\ openHdls = {1}
    /\ devPresent = TRUE
    /\ devCoding = TargetCoding(DevDefault)
    /\ evPending = {}
    /\ hpc = "idle"
    /\ hHdl = NULL
    /\ giveCnt = [s \in Sessions |-> 0]
    /\ rx_mbuf \in {ZeroMem, StaleMem}
    /\ e_mbuf = rx_mbuf
    /\ rx = NoRx
    /\ rxInCfg = FALSE
    /\ rbuf = TRUE
    /\ epc = "recv"
    /\ item = <<>>
    /\ tx = NoTx
    /\ ewr = {}
    /\ \E c \in Chunks :
          \/ usbIn = <<c>> /\ queue = <<>>
          \/ usbIn = <<>> /\ queue = <<c>>

NextFrame ==
    \/ HandleRx
    \/ EchoRecv \/ EchoTxCall \/ EchoTxReturn \/ EchoReturn

SpecFrame == InitFrame /\ [][NextFrame]_vars

(* The lifecycle under fair scheduling. app_main, the CDC-ACM driver task     *)
(* that runs handle_event, and echoTask are FreeRTOS tasks that the scheduler *)
(* keeps running: a step of theirs that stays possible is eventually taken.   *)
(* The device being plugged or unplugged and the wireless peer sending are    *)
(* the environment's choice and carry no fairness. Only the lifecycle and the *)
(* wireless -> wired pump take part.                                          *)
MgrStep ==
    MgrOpen \/ MgrDelay \/ MgrGet1 \/ MgrSet \/ MgrGet2 \/ MgrCtrl \/ MgrTake

EventStep == EventDisconnectClose \/ EventDisconnectGive

EchoStep == EchoRecv \/ EchoTxCall \/ EchoTxReturn \/ EchoReturn

NextLive ==
    \/ MgrStep
    \/ Plug \/ Unplug
    \/ EventStep
    \/ \E c \in BleChunks : Len(queue) < MaxPending /\ BleEnqueue(c)
    \/ EchoStep

SpecLive ==
    /\ Init /\ [][NextLive]_vars
    /\ WF_vars(MgrStep) /\ WF_vars(EventStep) /\ WF_vars(EchoStep)

(* The wireless -> wired direction with the ring buffer filled to MaxQueue:   *)
(* the bridge is Connected on its first session, as in InitFrame, the buffers *)
(* are fresh and the wireless peer sends chunks while echoTask runs.          *)
InitFifo ==
    /\ aborted = FALSE
    /\ failed = "none"
    /\ cdc_dev = 1
    /\ sem = 0
    /\ mpc = "take"
    /\ line_coding = TargetCoding(DevDefault)
    /\ steps = ConnectedSteps
    /\ setArgs = TargetCoding(DevDefault)
    /\ ctrlArgs = <<TRUE, FALSE>>
    /\ nTake = 0
    /\ nsess = 1
    /\ openHdls = {1}
    /\ devPresent = TRUE
    /\ devCoding = TargetCoding(DevDefault)
    /\ evPending = {}
    /\ hpc = "idle"
    /\ hHdl = NULL
    /\ giveCnt = [s \in Sessions |-> 0]
    /\ usbIn = <<>>
    /\ rx_mbuf = ZeroMem
    /\ rx = NoRx
    /\ rxInCfg = FALSE
    /\ rbuf = TRUE
    /\ queue = <<>>
    /\ epc = "recv"
    /\ item = <<>>
    /\ e_mbuf = ZeroMem
    /\ tx = NoTx
    /\ ewr = {}

NextFifo ==
    \/ \E c \in BleChunks : BleEnqueue(c)
    \/ EchoRecv \/ EchoTxCall \/ EchoTxReturn \/ EchoReturn

SpecFifo == InitFifo /\ [][NextFifo]_vars

(* ------------------------------ claims -------------------------------- *)
\* xSemaphoreGive calls of all disconnect events so far
RECURSIVE GivesUpTo(_)
GivesUpTo(n) == IF n = 0 THEN 0 ELSE giveCnt[n] + GivesUpTo(n - 1)

\* the bytes of a chunk up to its first NUL
TextOf(data) ==
    IF \E k \in 1..Len(data) : data[k] = NUL
    THEN SubSeq(data, 1, (CHOOSE k \in 1..Len(data) :
                             data[k] = NUL /\ \A j \in 1..(k - 1) : data[j] # NUL) - 1)
    ELSE data

EndsCRLF(data) ==
    Len(data) >= 2 /\ data[Len(data) - 1] = CR /\ data[Len(data)] = 10

\* C1: a disconnect signal given to the Connected manager returns it to the top
\* of its loop exactly once and is drained by that take: whenever app_main is
\* at cdc_acm_host_open the semaphore is empty, every session opened so far
\* was signalled once and taken once, and the semaphore always holds the
\* signals given and not yet taken.
C1_SignalDrainedBeforeOpen ==
    /\ sem = GivesUpTo(MaxSessions) - nTake
    /\ mpc = "open" =>
          /\ sem = 0
          /\ nTake = nsess
          /\ \A s \in 1..nsess : giveCnt[s] = 1
    /\ mpc # "open" => nTake = nsess - 1

\* C1 witness: the manager is back at the open after one disconnect was
\* signalled and taken
C1_Witness ==
    mpc = "open" /\ nTake = 1 /\ giveCnt[1] = 1 /\ sem = 0 /\ ~aborted

C3_ClosedBeforeSignal ==
    /\ sem = 1 => openHdls = {}
    /\ hpc = "give" => hHdl \notin openHdls
    /\ \A s \in Sessions :
          /\ giveCnt[s] <= 1
          /\ giveCnt[s] = 1 => s \notin openHdls
          /\ (s <= nsess /\ s \notin openHdls /\ ~(hpc = "give" /\ hHdl = s))
                => giveCnt[s] = 1

\* C3 witness: the signal is set for the closed session while app_main waits
C3_Witness ==
    sem = 1 /\ mpc = "take" /\ giveCnt[cdc_dev] = 1 /\ cdc_dev \notin openHdls

\* C4: echoTask invokes the wired send only on the handle of an open session,
\* with the bounded timeout; with no session open it drops the chunk without
\* the call.
C4_SendOnlyOnOpenHandle ==
    epc = "txwait" => (tx.valid /\ tx.timeout = USB_TX_TIMEOUT_MS)

\* C5: framing a chunk of sizeof(mbuf) bytes or more writes no cell at or
\* beyond index Capacity, in handle_rx and in echoTask.
C5_NoWritePastBuffer ==
    /\ (rx.ret /\ Len(rx.data) >= Capacity) =>
          \A i \in rx.writes : i < Capacity
    /\ (item # <<>> /\ Len(item[1]) >= Capacity) =>
          \A i \in ewr : i < Capacity

\* C6: for a chunk of fewer than 2 bytes handle_rx accesses no cell before
\* the buffer (index data_len - 2 is not looked up).
C6_NoUnderflowAccess ==
    (rx.ret /\ Len(rx.data) < 2) =>
        \A i \in rx.reads \cup rx.writes : i >= 0

\* C7: for 1 <= L <= Capacity - 1 handle_rx leaves the chunk's text in the
\* buffer, terminated at L, or at L - 2 when the byte there was CR, and
\* touches only cells 0..Capacity-1.
C7_FramedWithinBuffer ==
    (rx.ret /\ Len(rx.data) \in 1..(Capacity - 1)) =>
        LET L == Len(rx.data)
            cut == L >= 2 /\ StrncpyByte(rx.data, L - 2) = CR
        IN /\ \A i \in rx.reads \cup rx.writes : InBuffer(i)
           /\ rx_mbuf[L] = NUL
           /\ cut => rx_mbuf[L - 2] = NUL
           /\ CStr(rx_mbuf) = TextOf(IF cut THEN SubSeq(rx.data, 1, L - 2) ELSE rx.data)

C9_NoRelayDuringConfig ==
    /\ ~rxInCfg
    /\ ~(mpc \in CfgPcs /\ epc = "txwait" /\ tx.hdl = cdc_dev)

\* C9 amended: in every session the line coding is applied once, after the
\* open, the settle delay and the first get and before Connected; the pumps
\* are not held back meanwhile.
C9_ConfiguredOncePerSession ==
    LET sets == {k \in 1..Len(steps) : steps[k] = "set"}
    IN /\ Cardinality(sets) <= 1
       /\ \A k \in sets : SubSeq(steps, 1, k - 1) = <<"open", "delay", "get">>
       /\ mpc \in {"delay", "get1", "set"} => sets = {}
       /\ mpc \in {"get2", "ctrl", "take"} =>
             (Cardinality(sets) = 1 /\ setArgs = Coding(115200, 1, 0, 8))

\* C9 witness: while app_main is still configuring the session, handle_rx has
\* forwarded a chunk and echoTask is inside a wired send on its handle
C9_Witness ==
    /\ mpc \in {"get2", "ctrl"} /\ rxInCfg /\ rx.ret
    /\ epc = "txwait" /\ tx.hdl = cdc_dev /\ tx.valid
    /\ ~aborted

\* C10: a failed send is not fatal. When the wired send returns an error,
\* echoTask logs it, keeps running, returns the item and is back at its
\* dequeue with the rest of the queue untouched; when the wireless send fails,
\* handle_rx logs it and returns true, and the process is not aborted.
C10_SendFailureNotFatal ==
    [][ /\ (epc = "txwait" /\ tx'.err # ESP_OK) =>
              (tx'.warned /\ epc' = "ret" /\ ~aborted' /\ item' = item /\ queue' = queue)
        /\ (epc = "ret" /\ epc' # "ret") =>
              (epc' = "recv" /\ item' = <<>> /\ ~aborted' /\ queue' = queue)
        /\ (usbIn # <<>> /\ usbIn' = <<>> /\ hpc' = hpc /\ rx'.err # ESP_OK) =>
              (rx'.warned /\ rx'.ret /\ ~aborted') ]_vars

\* C10 witness: both sends have failed, echoTask is back at its dequeue with
\* the next chunk waiting, and the process runs
C10_Witness ==
    /\ tx.called /\ tx.err # ESP_OK /\ tx.warned /\ epc = "recv" /\ queue # <<>>
    /\ rx.ret /\ rx.err # ESP_OK /\ rx.warned
    /\ ~aborted

\* C11: every dequeued item is released exactly once, after the wired send
\* of its chunk has returned (with success or with an error) and before the
\* next dequeue. echoTask holds an item exactly while it is between its
\* dequeue and its vRingbufferReturnItem, never more than one; an item is
\* taken only when none is held, and a held item changes only by being
\* released, after the send of that very chunk has returned.
C11_ReleasedOncePerDequeue ==
    /\ [](Len(item) <= 1 /\ (item = <<>> <=> epc = "recv"))
    /\ [][ /\ (item = <<>> /\ item' # <<>>) =>
                  (epc = "recv" /\ queue # <<>> /\ item' = <<Head(queue)>>)
           /\ (item # <<>> /\ item' # item) =>
                  (/\ epc = "ret" /\ item' = <<>> /\ epc' = "recv"
                   /\ tx.called /\ tx.err \in Results
                   /\ tx.data = CStr(e_mbuf))
           /\ (epc = "ret" /\ epc' # "ret") => item' = <<>> ]_vars

\* C11 witness: a send on the open device has failed and its item has been
\* released all the same: echoTask is back at its dequeue holding nothing,
\* with the next chunk waiting
C11_Witness ==
    /\ epc = "recv" /\ item = <<>>
    /\ tx.called /\ tx.valid /\ tx.err # ESP_OK
    /\ queue # <<>> /\ ~aborted

\* C12: one chunk in flight, in order. The ring buffer changes only by the
\* wireless stack appending a chunk at its tail or by echoTask taking the
\* chunk at its head, and echoTask takes one only at its dequeue, holding no
\* item (so never between the entry and the return of the blocking send);
\* every wired send is entered holding the dequeued item and is passed the
\* text of that chunk.
C12_OneInFlightInOrder ==
    [][ /\ (queue' # queue) =>
              \/ /\ epc = "recv" /\ item = <<>> /\ queue # <<>>
                 /\ item' = <<Head(queue)>> /\ queue' = Tail(queue)
              \/ /\ item' = item /\ epc' = epc
                 /\ \E c \in BleChunks : queue' = Append(queue, c)
        /\ (epc \in {"tx", "txwait", "ret"}) => (Len(item) = 1 /\ (epc' = "recv" \/ item' = item))
        /\ (epc = "tx" /\ epc' = "txwait") =>
              /\ Len(tx'.data) >= Len(TextOf(item[1]))
              /\ \A k \in 1..Len(TextOf(item[1])) : tx'.data[k] = item[1][k] ]_vars

\* C12 witness: a wired send is blocked while two different chunks wait in
\* the ring buffer behind the one in flight
C12_Witness ==
    /\ epc = "txwait" /\ tx.called /\ Len(item) = 1
    /\ Len(queue) = 2 /\ queue[1] # queue[2]

\* C13: a disconnect is always recoverable. Handling the disconnect event
\* never terminates the process, whatever cdc_acm_host_close returns: the
\* process is never aborted by the close made in handle_event.
C13_DisconnectNeverFatal ==
    ~(aborted /\ failed = "close")

\* C14: a failed configuration step is fatal. Once a line-coding get, the
\* line-coding set or the control-line-state command has returned an error,
\* the process is aborted with the manager stopped at that very call, short of
\* Connected and not back at the open; and nothing runs in an aborted process,
\* so no later open attempt occurs.
C14_ConfigFailureAborts ==
    /\ [](failed \in {"get", "set", "ctrl"} =>
              /\ aborted
              /\ mpc = (IF failed = "get" THEN (IF Len(steps) = 2 THEN "get1" ELSE "get2")
                        ELSE failed)
              /\ steps # ConnectedSteps)
    /\ [][~aborted]_vars

\* C14 witness: the device is present and open and refuses the control-line
\* command of the second session: the process is aborted at that call
C14_Witness ==
    /\ aborted /\ failed = "ctrl" /\ mpc = "ctrl"
    /\ cdc_dev = 2 /\ cdc_dev \in openHdls /\ devPresent

\* C15: at most one wired-device session is open at any time. Whenever the
\* manager is at its cdc_acm_host_open call, every session it opened earlier
\* has been closed; never are two sessions open, and the open session, if
\* any, is the one opened last.
C15_OneSessionAtATime ==
    /\ (mpc = "open" => openHdls = {})
    /\ Cardinality(openHdls) <= 1
    /\ openHdls \subseteq {nsess}

\* C15 witness: after a first session and its disconnect the manager has
\* opened its second session, the only one open
C15_Witness ==
    /\ openHdls = {2} /\ cdc_dev = 2 /\ mpc = "take"
    /\ giveCnt[1] = 1 /\ nTake = 1 /\ ~aborted

\* C16: while the device is absent and every open attempt fails, the manager
\* stays at its open call (no configuration call made, no wait on the signal),
\* the process runs and the relay pumps stay idle: as long as no device has
\* been opened, no wired send has been attempted.
C16_PumpIdleWhileAbsent ==
    (nsess = 0) =>
        /\ mpc = "open" /\ steps = <<>> /\ nTake = 0
        /\ failed \notin {"get", "set", "ctrl", "close"}
        /\ ~tx.called

\* C17: under fair scheduling, when the wired device disappears while the
\* manager is Connected (a wired send may be in progress), the device handle
\* is closed, the signal is given and the manager eventually is back at its
\* open call.
C17_DisconnectLeadsToReopen ==
    (mpc = "take" /\ cdc_dev \in openHdls /\ cdc_dev \in evPending) ~> (mpc = "open")

\* C18: the shared handle cdc_dev is kept in step with the session: it is
\* updated at every open and at every close, so that it is absent (NULL)
\* whenever no session is open.
C18_HandleAbsentWhenClosed ==
    (openHdls = {}) => (cdc_dev = NULL)

C20_NeverBlockedOnClosedSession ==
    ~(~aborted /\ mpc = "take" /\ cdc_dev \notin openHdls /\ sem = 0)

\* C20 amended: a disconnect handled during the settle delay or the
\* configuration is not lost. Once handle_event has given the signal for the
\* manager's session it stays pending until the manager takes it; the manager
\* waits on an empty signal with its session closed only while handle_event
\* is between its close and its give for that session; and under fair
\* scheduling a manager whose session was closed before it reached its wait
\* gets back to its open call, unless a configuration call fails and aborts
\* the process.
C20_DisconnectBeforeWaitNotLost ==
    /\ []((mpc \in CfgPcs \cup {"take"} /\ giveCnt[cdc_dev] >= 1) => sem = 1)
    /\ []((~aborted /\ mpc = "take" /\ cdc_dev \notin openHdls /\ sem = 0) =>
              (hpc = "give" /\ hHdl = cdc_dev))
    /\ ((mpc \in CfgPcs /\ cdc_dev \notin openHdls) ~> (mpc = "open" \/ aborted))

\* C20 witness: the disconnect of the current session was handled to its end
\* while the manager is still configuring: the session is closed and the
\* signal is pending
C20_Witness ==
    /\ mpc \in CfgPcs /\ cdc_dev \notin openHdls /\ hpc = "idle"
    /\ giveCnt[cdc_dev] = 1 /\ sem = 1 /\ ~aborted

====
